---- MODULE Spec2Model ----
(***************************************************************************)
(* A model of the MLB dashboard script (src/bref.py): the accent stripper, *)
(* the connectivity probe, the name filter of the hitter and pitcher       *)
(* searches, and one script run after another over the two caches the      *)
(* script uses (the statistics library's cache and the framework's         *)
(* memoisation of get_cached_standings).                                   *)
(*                                                                         *)
(* Text is a sequence of Unicode code points (naturals).  A Python value   *)
(* is a record [type, v]: a str carries its code points in v.              *)
(***************************************************************************)
EXTENDS Integers, Sequences, FiniteSets, TLC

VARIABLES
    pc,          \* where the script run is ("idle" between runs)
    clock,       \* wall-clock time, in units of which TTL is measured
    enabled,     \* whether the statistics library's cache is enabled
    pbCache,     \* the statistics library's cache: key -> entry
    stCache,     \* st.cache_data memo of get_cached_standings: year -> entry
    lastRemote,  \* history: key -> time of the last remote call since the last purge
    purgedKeys,  \* history: keys that were cached at the last purge, not fetched since
    fetched,     \* history: the most recent fetch and how it was served
    ui,          \* the widget state of the current run
    view,        \* what the current run has rendered, section by section
    arg,         \* function-level specifications: the input
    ret          \* function-level specifications: the result

vars == <<pc, clock, enabled, pbCache, stCache, lastRemote, purgedKeys,
          fetched, ui, view, arg, ret>>

dashVars == <<clock, enabled, pbCache, stCache, lastRemote, purgedKeys,
              fetched, ui, view>>

(***************************************************************************)
(* Bounds of the model.                                                    *)
(***************************************************************************)
MaxTextLen == 3
MaxQueryLen == 2
MaxRows == 2
MaxClock == 2

SeqsUpTo(S, n) == UNION {[1..k -> S] : k \in 0..n}

(***************************************************************************)
(* Python values.                                                          *)
(***************************************************************************)
PyStr(s) == [type |-> "str", v |-> s]
PyInt(n) == [type |-> "int", v |-> <<n>>]
PyNone == [type |-> "NoneType", v |-> <<>>]
PyNaN == [type |-> "float", v |-> <<>>]
IsStr(x) == x.type = "str"

(***************************************************************************)
(* unicodedata, for the code points the model uses:                        *)
(*    40 (    46 .    65 A    97 a   101 e   102 f   105 i                 *)
(*   233 e-acute (U+00E9)        769 combining acute (U+0301)              *)
(*   807 combining cedilla (U+0327)                                        *)
(*  8413 combining enclosing circle (U+20DD, block "Combining Diacritical  *)
(*       Marks for Symbols", general category Me, combining class 0)       *)
(* 64257 ligature fi (U+FB01, compatibility decomposition f i)             *)
(***************************************************************************)
combining(c) ==
    CASE c = 769 -> 230
      [] c = 807 -> 202
      [] OTHER -> 0

\* The canonical decomposition mapping of one code point (NFD).
CanonicalDecomposition(c) ==
    CASE c = 233 -> <<101, 769>>
      [] OTHER -> <<c>>

\* The compatibility decomposition mapping of one code point (NFKD): the
\* canonical mappings and the <compat> ones.
CompatibilityDecomposition(c) ==
    CASE c = 64257 -> <<102, 105>>
      [] OTHER -> CanonicalDecomposition(c)

RECURSIVE Flatten(_)
Flatten(ss) == IF ss = <<>> THEN <<>> ELSE Head(ss) \o Flatten(Tail(ss))

\* The canonical ordering algorithm: adjacent code points of non-zero
\* combining class are put in non-decreasing order of class.
RECURSIVE CanonicalOrder(_)
CanonicalOrder(s) ==
    LET bad == {i \in 1..(Len(s) - 1) :
                  combining(s[i + 1]) > 0 /\ combining(s[i]) > combining(s[i + 1])}
    IN  IF bad = {} THEN s
        ELSE LET i == CHOOSE j \in bad : \A k \in bad : j <= k
             IN  CanonicalOrder([s EXCEPT ![i] = s[i + 1], ![i + 1] = s[i]])

\* unicodedata.normalize('NFKD', s)
NFKD(s) == CanonicalOrder(Flatten([i \in 1..Len(s) |-> CompatibilityDecomposition(s[i])]))

\* unicodedata.normalize('NFD', s)
NFD(s) == CanonicalOrder(Flatten([i \in 1..Len(s) |-> CanonicalDecomposition(s[i])]))

NotCombining(c) == combining(c) = 0

(***************************************************************************)
(* strip_accents (src/bref.py 21-24)                                       *)
(***************************************************************************)
strip_accents_nfd(text) ==
    IF ~IsStr(text) THEN text
    ELSE PyStr(SelectSeq(NFD(text.v), NotCombining))

strip_accents(text) ==
    IF ~IsStr(text) THEN text
    ELSE PyStr(SelectSeq(NFKD(text.v), NotCombining))

(***************************************************************************)
(* check_bref_status (src/bref.py 26-34).  The outcome of the one          *)
(* requests.get is a response with a status code, or an exception.         *)
(***************************************************************************)
StatusCodes == 100..599
RequestExceptions == {"Timeout", "ConnectionError", "DNSFailure", "SSLError",
                      "KeyboardInterrupt"}
ProbeOutcomes ==
    [kind : {"response"}, status_code : StatusCodes, exc : {"none"}]
    \cup [kind : {"raise"}, status_code : {0}, exc : RequestExceptions]

Returned(label, icon) == [raised |-> "none", label |-> label, icon |-> icon]

check_bref_status_swapped(outcome) ==
    IF outcome.kind = "raise" THEN Returned("Offline", "white")
    ELSE IF outcome.status_code = 200 THEN Returned("Online", "green")
    ELSE IF outcome.status_code = 403 THEN Returned("Rate Limited", "yellow")
    ELSE Returned("Blocked", "red")

check_bref_status(outcome) ==
    IF outcome.kind = "raise" THEN Returned("Offline", "white")
    ELSE IF outcome.status_code = 200 THEN Returned("Online", "green")
    ELSE IF outcome.status_code = 429 THEN Returned("Rate Limited", "yellow")
    ELSE Returned("Blocked", "red")

(***************************************************************************)
(* Tables (pandas DataFrames): an ordered list of column names and a list  *)
(* of rows, each row a function from the column names to Python values.    *)
(***************************************************************************)
Range(s) == {s[i] : i \in 1..Len(s)}
HasColumn(df, c) == c \in Range(df.columns)

\* df[c] = vals: an existing column is overwritten in place, a new one is
\* appended as the last column.  The DataFrame object itself changes.
SetColumn(df, c, vals) ==
    [columns |-> IF HasColumn(df, c) THEN df.columns ELSE Append(df.columns, c),
     rows |-> [i \in 1..Len(df.rows) |->
                 [x \in (DOMAIN df.rows[i]) \cup {c} |->
                    IF x = c THEN vals[i] ELSE df.rows[i][x]]]]

\* results[available]: the listed columns, in the listed order.
Project(df, available) ==
    [columns |-> available,
     rows |-> [i \in 1..Len(df.rows) |->
                 [x \in Range(available) |-> df.rows[i][x]]]]

(***************************************************************************)
(* Series.str.contains(pat, case=False).  regex defaults to True, so pat   *)
(* is compiled as a regular expression and searched with re.IGNORECASE.    *)
(* Of the regular-expression syntax the model has the literal characters,  *)
(* "." (46, any character) and "(" (40): with no ")" in the alphabet a     *)
(* pattern holding "(" is an unterminated group and re.compile raises.     *)
(***************************************************************************)
Lower(c) == IF c = 65 THEN 97 ELSE c

re_compiles(pat) == 40 \notin Range(pat)

re_search(pat, s) ==
    \E i \in 0..(Len(s) - Len(pat)) :
        \A j \in 1..Len(pat) : pat[j] = 46 \/ Lower(pat[j]) = Lower(s[i + j])

\* What a literal, case-insensitive substring test gives (regex=False).
literal_search(pat, s) ==
    \E i \in 0..(Len(s) - Len(pat)) :
        \A j \in 1..Len(pat) : Lower(pat[j]) = Lower(s[i + j])

(***************************************************************************)
(* The body of a search handler after its fetch: the outcome is the error  *)
(* that reached the handler's except clause ("none" when none did), the    *)
(* table object as the handler leaves it, and what st.dataframe showed.    *)
(***************************************************************************)
cols == <<"Name", "Tm", "G", "AB", "R", "H", "HR", "RBI", "BA", "OBP", "SLG", "OPS">>
p_cols == <<"Name", "Tm", "G", "W", "L", "BB", "SO", "ERA", "WHIP", "ERA+", "SV">>

Outcome(error, df, shown) == [error |-> error, df |-> df, shown |-> shown]

\* df['CleanName'] = df['Name'].apply(strip_accents)
\* results = df[df['CleanName'].str.contains(query, case=False)]
\* available = [c for c in requested if c in results.columns]
\* st.dataframe(results[available])
name_filter(df, query, requested) ==
    IF ~HasColumn(df, "Name") THEN Outcome("KeyError", df, <<>>)
    ELSE
      LET df2 == SetColumn(df, "CleanName",
                           [i \in 1..Len(df.rows) |-> strip_accents(df.rows[i]["Name"])])
      IN  IF ~re_compiles(query) THEN Outcome("re.error", df2, <<>>)
          \* a name that is no str gives NaN in the mask, and df[mask] raises
          ELSE IF \E i \in 1..Len(df2.rows) : ~IsStr(df2.rows[i]["CleanName"])
               THEN Outcome("ValueError", df2, <<>>)
          ELSE
            LET Match(r) == re_search(query, r["CleanName"].v)
                results == [columns |-> df2.columns, rows |-> SelectSeq(df2.rows, Match)]
                InResults(c) == HasColumn(results, c)
                available == SelectSeq(requested, InResults)
            IN  Outcome("none", df2, <<Project(results, available)>>)

\* Lines 158-161: pdf['ERA'].mean(), pdf['WHIP'].mean(), int(pdf['SO'].mean()).
\* A missing column is a KeyError; the mean of no rows is NaN, which round()
\* accepts and int() refuses.
league_metrics(pdf) ==
    IF ~HasColumn(pdf, "ERA") \/ ~HasColumn(pdf, "WHIP") \/ ~HasColumn(pdf, "SO")
    THEN "KeyError"
    ELSE IF Len(pdf.rows) = 0 THEN "ValueError"
    ELSE "none"

\* Tab 3, lines 134-139.
hitter_search(df, h_query) == name_filter(df, h_query, cols)

\* Tab 4, lines 158-169.
pitcher_search(pdf, p_query) ==
    IF league_metrics(pdf) # "none" THEN Outcome(league_metrics(pdf), pdf, <<>>)
    ELSE name_filter(pdf, p_query, p_cols)

(***************************************************************************)
(* The dashboard's state between script runs.                              *)
(***************************************************************************)
Kinds == {"standings", "schedule", "batting", "pitching"}
Years == {2024}
Teams == {"NYY"}
\* A cache key: the library function and its arguments (the team only for
\* schedule_and_record).
Key(kind, year, team) == <<kind, year, IF kind = "schedule" THEN team ELSE "-">>
Keys == {Key(k, y, t) : k \in Kinds, y \in Years, t \in Teams}
StandingsKeys == {k \in Keys : k[1] = "standings"}

PyNoneResult == [py |-> "None", frames |-> <<>>]
NoEntry == [t |-> -1, val |-> PyNoneResult]
NoFetch == [key |-> <<"none", 0, "-">>, remote |-> FALSE, cached |-> FALSE, age |-> 0,
            afterPurge |-> FALSE, inWindow |-> FALSE, raised |-> FALSE, empty |-> FALSE]
NoInput == [button |-> "none", st_yr |-> 0, year |-> 0, team |-> "-", query |-> <<>>]
BlankView == [status |-> "", sidebar |-> "", tab1 |-> "", tab2 |-> "", tab3 |-> "",
              tab4 |-> "", aborted |-> FALSE]

DashIdle ==
    /\ clock = 0
    /\ enabled = FALSE
    /\ pbCache = [k \in Keys |-> NoEntry]
    /\ stCache = [k \in StandingsKeys |-> NoEntry]
    /\ lastRemote = [k \in Keys |-> -1]
    /\ purgedKeys = {}
    /\ fetched = NoFetch
    /\ ui = NoInput
    /\ view = BlankView

(***************************************************************************)
(* strip_accents on its own: every text up to MaxTextLen over an alphabet  *)
(* with a base letter, a precomposed letter, combining marks of two        *)
(* classes, a class-0 combining mark and a compatibility character, and    *)
(* values that are no str.                                                 *)
(***************************************************************************)
TextAlphabet == {101, 233, 769, 807, 8413, 64257}
TextInputs == {PyStr(s) : s \in SeqsUpTo(TextAlphabet, MaxTextLen)}
              \cup {PyNone, PyInt(42), PyNaN}

InitNormalizer == pc = "call" /\ arg \in TextInputs /\ ret = PyNone /\ DashIdle

CallStripAccents ==
    /\ pc = "call"
    /\ ret' = strip_accents(arg)
    /\ pc' = "returned"
    /\ UNCHANGED <<arg, dashVars>>

NextNormalizer == CallStripAccents

SpecNormalizer == InitNormalizer /\ [][NextNormalizer]_vars

(***************************************************************************)
(* check_bref_status on its own, over every outcome of the request.       *)
(***************************************************************************)
InitProbe == pc = "call" /\ arg \in ProbeOutcomes /\ ret = Returned("", "") /\ DashIdle

CallCheckBrefStatus ==
    /\ pc = "call"
    /\ ret' = check_bref_status(arg)
    /\ pc' = "returned"
    /\ UNCHANGED <<arg, dashVars>>

NextProbe == CallCheckBrefStatus

SpecProbe == InitProbe /\ [][NextProbe]_vars

(***************************************************************************)
(* The two search handlers on their own, from the fetched table on: every  *)
(* table over a column universe (in the table's own column order, which    *)
(* is not the requested order) with up to MaxRows rows, and every query    *)
(* up to MaxQueryLen.                                                      *)
(***************************************************************************)
ColumnUniverse == <<"Age", "ERA+", "WHIP", "ERA", "SO", "H", "Name">>
NameValues == {PyStr(<<97>>), PyStr(<<65, 233>>), PyStr(<<101, 46>>), PyNaN}
QueryAlphabet == {97, 65, 101, 46, 40}
Queries == SeqsUpTo(QueryAlphabet, MaxQueryLen)

MakeTable(colset, names) ==
    LET Present(c) == c \in colset
    IN  [columns |-> SelectSeq(ColumnUniverse, Present),
         rows |-> [i \in 1..Len(names) |->
                     [c \in colset |-> IF c = "Name" THEN names[i] ELSE PyInt(i)]]]
Tables == {MakeTable(cs, ns) : cs \in SUBSET Range(ColumnUniverse),
                               ns \in SeqsUpTo(NameValues, MaxRows)}

NoOutcome == [handler |-> "none", error |-> "none", df |-> MakeTable({}, <<>>), shown |-> <<>>]
Handled(handler, o) ==
    [handler |-> handler, error |-> o.error, df |-> o.df, shown |-> o.shown]

InitFilter ==
    /\ pc = "call"
    /\ arg \in [df : Tables, query : Queries]
    /\ ret = NoOutcome
    /\ DashIdle

SearchHitters ==
    /\ pc = "call"
    /\ ret' = Handled("hitters", hitter_search(arg.df, arg.query))
    /\ pc' = "returned"
    /\ UNCHANGED <<arg, dashVars>>

SearchPitchers ==
    /\ pc = "call"
    /\ ret' = Handled("pitchers", pitcher_search(arg.df, arg.query))
    /\ pc' = "returned"
    /\ UNCHANGED <<arg, dashVars>>

NextFilter == SearchHitters \/ SearchPitchers

SpecFilter == InitFilter /\ [][NextFilter]_vars

(***************************************************************************)
(* The upstream library functions.  A call either raises or returns a     *)
(* Python value: None, a list of tables (standings) or one DataFrame.      *)
(***************************************************************************)
PyList(frames) == [py |-> "list", frames |-> frames]
PyFrame(df) == [py |-> "DataFrame", frames |-> <<df>>]

FullTable == MakeTable(Range(ColumnUniverse), <<PyStr(<<97>>), PyStr(<<65, 233>>)>>)
NoRowsTable == MakeTable(Range(ColumnUniverse), <<>>)

Results(kind) ==
    CASE kind = "standings" -> {PyList(<<>>), PyList(<<FullTable>>)}
      [] kind = "schedule" -> {PyNoneResult, PyFrame(NoRowsTable), PyFrame(FullTable)}
      [] OTHER -> {PyFrame(NoRowsTable), PyFrame(FullTable)}
CallOutcomes(kind) ==
    [raise : {TRUE}, val : {PyNoneResult}] \cup [raise : {FALSE}, val : Results(kind)]

\* No rows: None, an empty list, or a DataFrame of zero rows.
IsEmptyResult(val) ==
    \/ val.py = "None"
    \/ val.frames = <<>>
    \/ val.py = "DataFrame" /\ Len(val.frames[1].rows) = 0

(***************************************************************************)
(* The statistics library's cache around a library function (cache.enable, *)
(* cache.purge and the caching of the four functions are the library's;    *)
(* this is the contract the dashboard relies on): with the cache enabled,  *)
(* an entry younger than TTL is returned without a remote call; otherwise  *)
(* the remote call is made and, with the cache enabled, its result stored. *)
(* A call that raises stores nothing.  born is when the returned data left *)
(* the remote source.                                                      *)
(***************************************************************************)
TTL == 1

Served(raised, val, remote, born, cache) ==
    [raised |-> raised, val |-> val, remote |-> remote, born |-> born, cache |-> cache]

df_cache(k, outcome) ==
    IF enabled /\ pbCache[k] # NoEntry /\ clock - pbCache[k].t < TTL
    THEN Served(FALSE, pbCache[k].val, FALSE, pbCache[k].t, pbCache)
    ELSE IF outcome.raise THEN Served(TRUE, PyNoneResult, TRUE, clock, pbCache)
    ELSE Served(FALSE, outcome.val, TRUE, clock,
                IF enabled THEN [pbCache EXCEPT ![k] = [t |-> clock, val |-> outcome.val]]
                ELSE pbCache)

\* cache.purge(): every entry of the library's cache is dropped.
purge == [k \in Keys |-> NoEntry]

(***************************************************************************)
(* get_cached_standings (lines 36-38): st.cache_data with no ttl and no    *)
(* max_entries.  A memoised value is returned whatever its age, without    *)
(* calling standings(); a call that raises memoises nothing.               *)
(***************************************************************************)
Memo(r, memo) == [r |-> r, memo |-> memo]

get_cached_standings(year, outcome) ==
    LET k == Key("standings", year, "-")
    IN  IF stCache[k] # NoEntry
        THEN Memo(Served(FALSE, stCache[k].val, FALSE, stCache[k].t, pbCache), stCache)
        ELSE LET r == df_cache(k, outcome)
             IN  Memo(r, IF r.raised THEN stCache
                         ELSE [stCache EXCEPT ![k] = [t |-> r.born, val |-> r.val]])

\* get_cached_batting (lines 40-42) is decorated the same way and is never
\* called: tab 3 calls batting_stats_bref directly (line 133).

(***************************************************************************)
(* History of the fetches, kept for the cache properties.                  *)
(***************************************************************************)
Record(k, r) ==
    /\ fetched' = [key |-> k, remote |-> r.remote, cached |-> ~r.remote,
                   age |-> IF r.remote THEN 0 ELSE clock - r.born,
                   afterPurge |-> k \in purgedKeys,
                   inWindow |-> lastRemote[k] >= 0 /\ clock - lastRemote[k] < TTL,
                   raised |-> r.raised,
                   empty |-> ~r.raised /\ IsEmptyResult(r.val)]
    \* a remote call that returned a table opens the key's window
    /\ lastRemote' = IF r.remote /\ ~r.raised THEN [lastRemote EXCEPT ![k] = clock]
                     ELSE lastRemote
    /\ purgedKeys' = purgedKeys \ {k}

(***************************************************************************)
(* One run of the script, top to bottom, for one user interaction.  At     *)
(* most one button is pressed in a run; the standings tab loads in every   *)
(* run.  An exception no handler catches ends the run where it is raised.  *)
(***************************************************************************)
Buttons == {"none", "clear", "schedule", "hitters", "pitchers"}
DashQueries == {<<>>, <<97>>}
DashProbes == {o \in ProbeOutcomes :
                 \/ o.kind = "response" /\ o.status_code = 200
                 \/ o.exc = "Timeout"}

Inputs ==
    {i \in [button : Buttons, st_yr : Years, year : Years \cup {0},
            team : Teams \cup {"-"}, query : DashQueries] :
        /\ (i.year = 0) = (i.button \in {"none", "clear"})
        /\ (i.team = "-") = (i.button # "schedule")
        /\ (i.button \notin {"hitters", "pitchers"}) => i.query = <<>>}

\* The user acts: the widgets take their values and the script reruns.
BeginRun ==
    /\ pc = "idle"
    /\ ui' \in Inputs
    /\ view' = BlankView
    /\ fetched' = NoFetch
    /\ pc' = "setup"
    /\ UNCHANGED <<clock, enabled, pbCache, stCache, lastRemote, purgedKeys, arg, ret>>

\* Time passes between two runs.
Tick ==
    /\ pc = "idle"
    /\ clock < MaxClock
    /\ clock' = clock + 1
    /\ UNCHANGED <<pc, enabled, pbCache, stCache, lastRemote, purgedKeys,
                   fetched, ui, view, arg, ret>>

\* Lines 13-16: cache.enable() in a try whose except passes.
Setup ==
    /\ pc = "setup"
    /\ \/ enabled' = TRUE
       \/ enabled' = enabled          \* cache.enable() raised
    /\ pc' = "sidebar"
    /\ UNCHANGED <<clock, pbCache, stCache, lastRemote, purgedKeys,
                   fetched, ui, view, arg, ret>>

\* Lines 45-55: the status metric, then the Clear App Cache button.
Sidebar ==
    /\ pc = "sidebar"
    /\ \E probe \in DashProbes :
         LET status == check_bref_status(probe).label
         IN  \/ /\ ui.button # "clear"
                /\ view' = [view EXCEPT !.status = status, !.sidebar = "tip"]
                /\ pc' = "tab1"
                /\ UNCHANGED <<pbCache, lastRemote, purgedKeys>>
             \/ /\ ui.button = "clear"
                /\ pbCache' = purge
                /\ purgedKeys' = {k \in Keys : \/ pbCache[k] # NoEntry
                                               \/ k \in StandingsKeys /\ stCache[k] # NoEntry}
                /\ lastRemote' = [k \in Keys |-> -1]
                /\ view' = [view EXCEPT !.status = status, !.sidebar = "Cache cleared!"]
                /\ pc' = "tab1"
             \/ /\ ui.button = "clear"   \* cache.purge() raises, outside any try
                /\ view' = [view EXCEPT !.status = status, !.aborted = TRUE]
                /\ pc' = "done"
                /\ UNCHANGED <<pbCache, lastRemote, purgedKeys>>
    /\ UNCHANGED <<clock, enabled, stCache, fetched, ui, arg, ret>>

\* Lines 68-91.
Tab1 ==
    /\ pc = "tab1"
    /\ \E outcome \in CallOutcomes("standings") :
         LET m == get_cached_standings(ui.st_yr, outcome)
             data == m.r.val
         IN  /\ Record(Key("standings", ui.st_yr, "-"), m.r)
             /\ pbCache' = m.r.cache
             /\ stCache' = m.memo
             /\ view' = [view EXCEPT !.tab1 =
                           IF m.r.raised THEN "error"
                           ELSE IF data.py = "DataFrame" THEN "error"  \* truth value of a DataFrame
                           ELSE IF data.py = "list" /\ data.frames # <<>> THEN "tables"
                           ELSE "warning"]
    /\ pc' = "tab2"
    /\ UNCHANGED <<clock, enabled, ui, arg, ret>>

\* Lines 94-119.
Tab2 ==
    /\ pc = "tab2"
    /\ \/ /\ ui.button # "schedule"
          /\ view' = [view EXCEPT !.tab2 = "widgets"]
          /\ UNCHANGED <<pbCache, lastRemote, purgedKeys, fetched>>
       \/ /\ ui.button = "schedule"
          /\ \E outcome \in CallOutcomes("schedule") :
               LET k == Key("schedule", ui.year, ui.team)
                   r == df_cache(k, outcome)
               IN  /\ Record(k, r)
                   /\ pbCache' = r.cache
                   /\ view' = [view EXCEPT !.tab2 =
                                 IF r.raised THEN "error"
                                 ELSE IF r.val.py # "None" THEN "table"
                                 ELSE "error"]              \* Table not found
    /\ pc' = "tab3"
    /\ UNCHANGED <<clock, enabled, stCache, ui, arg, ret>>

\* Lines 122-141.  The table the library returns is the handler's own object.
Tab3 ==
    /\ pc = "tab3"
    /\ \/ /\ ui.button # "hitters"
          /\ view' = [view EXCEPT !.tab3 = "widgets"]
          /\ UNCHANGED <<pbCache, lastRemote, purgedKeys, fetched>>
       \/ /\ ui.button = "hitters"
          /\ \E outcome \in CallOutcomes("batting") :
               LET k == Key("batting", ui.year, "-")
                   r == df_cache(k, outcome)
               IN  /\ Record(k, r)
                   /\ pbCache' = r.cache
                   /\ view' = [view EXCEPT !.tab3 =
                                 IF r.raised THEN "error"
                                 ELSE IF hitter_search(r.val.frames[1], ui.query).error # "none"
                                      THEN "error"
                                 ELSE "table"]
    /\ pc' = "tab4"
    /\ UNCHANGED <<clock, enabled, stCache, ui, arg, ret>>

\* Lines 144-171.
Tab4 ==
    /\ pc = "tab4"
    /\ \/ /\ ui.button # "pitchers"
          /\ view' = [view EXCEPT !.tab4 = "widgets"]
          /\ UNCHANGED <<pbCache, lastRemote, purgedKeys, fetched>>
       \/ /\ ui.button = "pitchers"
          /\ \E outcome \in CallOutcomes("pitching") :
               LET k == Key("pitching", ui.year, "-")
                   r == df_cache(k, outcome)
               IN  /\ Record(k, r)
                   /\ pbCache' = r.cache
                   /\ view' = [view EXCEPT !.tab4 =
                                 IF r.raised THEN "error"
                                 ELSE IF pitcher_search(r.val.frames[1], ui.query).error # "none"
                                      THEN "error"
                                 ELSE "table"]
    /\ pc' = "done"
    /\ UNCHANGED <<clock, enabled, stCache, ui, arg, ret>>

\* The run is over: the page stays as rendered until the user acts again.
EndRun ==
    /\ pc = "done"
    /\ pc' = "idle"
    /\ ui' = NoInput
    /\ view' = BlankView
    /\ fetched' = NoFetch
    /\ UNCHANGED <<clock, enabled, pbCache, stCache, lastRemote, purgedKeys, arg, ret>>

Init == pc = "idle" /\ DashIdle /\ arg = PyNone /\ ret = PyNone

Next == BeginRun \/ Tick \/ Setup \/ Sidebar \/ Tab1 \/ Tab2 \/ Tab3 \/ Tab4 \/ EndRun

Spec == Init /\ [][Next]_vars

(***************************************************************************)
(* Properties.                                                             *)
(***************************************************************************)

\* C1: after Clear App Cache (purge), the next fetch of a key that was cached
\* at the purge makes a new remote call, whatever the dataset kind.
C1_PurgeForcesRemoteCall == fetched.afterPurge => fetched.remote

\* C2: no fetch returns a stored table older than the time-to-live: a fetch
\* served from a cache returns a table of age at most TTL.
C2_NeverServedPastTTL == fetched.cached => fetched.age <= TTL

\* C3: a fetch of a key makes no remote call when a remote call for the same
\* key already returned a table less than TTL ago with no purge since: two
\* fetches in one window make at most one remote call.
C3_AtMostOneRemoteCallPerWindow == ~(fetched.remote /\ fetched.inWindow)

\* C4: check_bref_status never raises and classifies every outcome of its
\* request: 200 Online, 429 Rate Limited, any other status Blocked, and any
\* exception Offline.
C4_ProbeClassifies ==
    pc = "returned" =>
      /\ ret.raised = "none"
      /\ ret.label \in {"Online", "Rate Limited", "Blocked", "Offline"}
      /\ (ret.label = "Online") = (arg.kind = "response" /\ arg.status_code = 200)
      /\ (ret.label = "Rate Limited") = (arg.kind = "response" /\ arg.status_code = 429)
      /\ (ret.label = "Blocked") =
            (arg.kind = "response" /\ arg.status_code \notin {200, 429})
      /\ (ret.label = "Offline") = (arg.kind = "raise")

C4_RateLimitedSeen ==
    pc = "returned" /\ arg.kind = "response" /\ arg.status_code = 429
    /\ ret.label = "Rate Limited"

\* The rows of a table whose accent-stripped name holds the query as a
\* case-insensitive substring, in the table's order.
SubstringRows(df, query) ==
    LET Holds(r) == /\ IsStr(strip_accents(r["Name"]))
                    /\ literal_search(query, strip_accents(r["Name"]).v)
    IN  SelectSeq(df.rows, Holds)

ShownColumns(df, requested) ==
    LET Present(c) == HasColumn(df, c)
    IN  SelectSeq(requested, Present)

Requested(handler) == IF handler = "hitters" THEN cols ELSE p_cols

\* C5: the rows a search shows are exactly the rows of the table whose
\* accent-stripped name contains the query as a case-insensitive substring,
\* in their original order (all rows for the empty query).
C5_ShowsSubstringMatches ==
    (pc = "returned" /\ ret.error = "none") =>
      LET want == ShownColumns(arg.df, Requested(ret.handler))
      IN  ret.shown = <<Project([columns |-> arg.df.columns,
                                 rows |-> SubstringRows(arg.df, arg.query)], want)>>

\* C6: when a requested column is absent from the table (which has names to
\* search, all text, at least one row, and a query that is a valid pattern),
\* the search ends without an error and shows exactly the requested columns
\* that are present, in the requested order.
C6_MissingColumnIsNoError ==
    (/\ pc = "returned"
     /\ \E c \in Range(Requested(ret.handler)) : ~HasColumn(arg.df, c)
     /\ HasColumn(arg.df, "Name")
     /\ Len(arg.df.rows) > 0
     /\ \A i \in 1..Len(arg.df.rows) : IsStr(arg.df.rows[i]["Name"])
     /\ re_compiles(arg.query))
    => /\ ret.error = "none"
       /\ Len(ret.shown) = 1
       /\ ret.shown[1].columns = ShownColumns(arg.df, Requested(ret.handler))

\* C7: a search leaves the fetched table as it was: same columns, same rows.
C7_InputTableUnchanged == pc = "returned" => ret.df = arg.df

\* C8: every run renders every part of the page: no error raised while
\* handling the user's action ends the run.
C8_RunRendersEverything ==
    pc = "done" =>
      /\ ~view.aborted
      /\ view.sidebar # "" /\ view.tab1 # "" /\ view.tab2 # ""
      /\ view.tab3 # "" /\ view.tab4 # ""

SectionOf(kind) ==
    CASE kind = "standings" -> view.tab1
      [] kind = "schedule" -> view.tab2
      [] kind = "batting" -> view.tab3
      [] kind = "pitching" -> view.tab4
      [] OTHER -> ""

\* C9: when the upstream call returned without raising and gave no rows
\* (None, an empty list, a table of zero rows), the section that asked shows
\* a warning or an error message.
C9_EmptyResultShowsMessage ==
    fetched.empty => SectionOf(fetched.key[1]) \in {"warning", "error"}

\* C10, canonical reading: strip_accents returns the canonical decomposition
\* (NFD) of the text with exactly the combining marks (the code points of
\* non-zero combining class) removed; a value that is no text unchanged.
C10_CanonicalMarksRemoved ==
    pc = "returned" =>
      ret = IF IsStr(arg) THEN PyStr(SelectSeq(NFD(arg.v), NotCombining)) ELSE arg

\* What is left of one code point: its decomposition, compatibility mappings
\* included, without the code points of non-zero combining class.
BaseOf(c) ==
    CASE c = 233 -> <<101>>
      [] c = 64257 -> <<102, 105>>
      [] c \in {769, 807} -> <<>>
      [] OTHER -> <<c>>

\* C10, compatibility reading: strip_accents returns the compatibility decomposition (NFKD)
\* of the text with exactly the code points of non-zero canonical combining
\* class removed, the rest in their original order; a value that is no text
\* is returned unchanged.
C10_CompatibilityBasesKept ==
    pc = "returned" =>
      ret = IF IsStr(arg)
            THEN PyStr(Flatten([i \in 1..Len(arg.v) |-> BaseOf(arg.v[i])]))
            ELSE arg

C10_LigatureAndAccentSeen ==
    pc = "returned" /\ arg = PyStr(<<64257, 233, 8413>>)
    /\ ret = PyStr(<<102, 105, 101, 8413>>)

====
